---- MODULE Spec2Model ----
(***************************************************************************)
(* Model of the task-tracking HTTP service of httpserver.py: the task      *)
(* store (class TaskManager) with its backing file, and the request        *)
(* handler (class TodoHandler) that routes one HTTP request at a time to   *)
(* the store and answers with one JSON response.                           *)
(***************************************************************************)
EXTENDS Integers, Sequences, FiniteSets, TLC

VARIABLES
    tasks,       \* TaskManager.tasks: the in-memory list of task dicts
    tasksKind,   \* "list", or "dict" when load_tasks read a JSON object
    file,        \* the backing file TaskManager.filename
    req,         \* the request the handler served last
    resp,        \* what was written to the client for that request
    handlers,    \* create_task calls in progress, one entry per caller
    before,      \* history: the task list when that request arrived
    assigned,    \* history: every id handed out by create_task so far
    deleted,     \* history: every id whose delete_task returned True
    writeFailures, \* history: how many times save_tasks raised IOError
    flushed,     \* history: the task list the last save_tasks call that
                 \* raised nothing wrote (before any: what load_tasks read)
    lastWrite    \* history: what the file write of the latest save_tasks
                 \* call did ("none": no call since the first start)

vars ==
    <<tasks, tasksKind, file, req, resp, handlers, before, assigned, deleted,
      writeFailures, flushed, lastWrite>>

\* ------------------------------------------------------------------ bounds
\* create_task is not taken once the next id would exceed MaxId
MaxId == 2
\* at most MaxWriteFailures file writes fail in a run
MaxWriteFailures == 1

\* ------------------------------------------------------- JSON values
JStr(s) == [type |-> "string", str |-> s, num |-> 0]
JNum(n) == [type |-> "number", str |-> "", num |-> n]
JNull == [type |-> "null", str |-> "", num |-> 0]
JTrue == [type |-> "true", str |-> "", num |-> 0]
JFalse == [type |-> "false", str |-> "", num |-> 0]
\* a key that is missing from a JSON object
Absent == [type |-> "absent", str |-> "", num |-> 0]

JBool(b) == IF b THEN JTrue ELSE JFalse

\* a test "is not None" in place of the truth value
Truthy_notnone(v) == v.type \notin {"absent", "null"}

\* Python truth value of a value read with dict.get (None when missing)
Truthy(v) ==
    /\ v.type \notin {"absent", "null", "false"}
    /\ ~(v.type = "string" /\ v.str = "")
    /\ ~(v.type = "number" /\ v.num = 0)

\* dict.get(key) used without its default
dict_get_nodefault(v, default) == v

\* dict.get(key, default)
dict_get(v, default) == IF v.type = "absent" THEN default ELSE v

\* ------------------------------------------------------- the task store
\* json.dump of one task dict / of the list (the text kept as a JSON tree)
TaskToJson(t) ==
    [id |-> JNum(t.id), title |-> t.title,
     priority |-> JStr(t.priority), isDone |-> JBool(t.isDone)]

json_dump(ts) == [i \in 1..Len(ts) |-> TaskToJson(ts[i])]

TaskFromJson(o) ==
    [id |-> o.id.num, title |-> o.title,
     priority |-> o.priority.str, isDone |-> (o.isDone.type = "true")]

json_loads(items) == [i \in 1..Len(items) |-> TaskFromJson(items[i])]

MissingFile == [kind |-> "missing", items |-> <<>>]
EmptyFile == [kind |-> "empty", items |-> <<>>]
MalformedFile == [kind |-> "malformed", items |-> <<>>]
ArrayFile(ts) == [kind |-> "array", items |-> json_dump(ts)]
\* well-formed JSON that is an object, such as {"a": 1}, not an array
ObjectFile == [kind |-> "object", items |-> <<>>]

\* TaskManager.load_tasks, on self.tasks = []: the task dicts self.tasks
\* holds afterwards (none when json.loads gave a dict without tasks)
load_tasks(f) ==
    IF f.kind = "missing" THEN <<>>
    ELSE IF f.kind = "empty" THEN <<>>
    ELSE IF f.kind = "malformed" THEN <<>>
    ELSE IF f.kind = "object" THEN <<>>
    ELSE json_loads(f.items)

\* TaskManager.load_tasks: the Python type of self.tasks afterwards;
\* json.loads of an object is assigned as it is
load_kind(f) == IF f.kind = "object" THEN "dict" ELSE "list"

\* TaskManager.save_tasks: the file after the call. open() may raise
\* IOError before truncating (file kept), or the write may raise after
\* open() truncated it (file left empty or cut short).
WriteOutcomes == {"ok", "open_failed", "truncated", "cut_short"}

save_tasks(ts, f, outcome) ==
    IF outcome = "ok" THEN ArrayFile(ts)
    ELSE IF outcome = "open_failed" THEN f
    ELSE IF outcome = "truncated" THEN EmptyFile
    ELSE MalformedFile

SetMax(S) == CHOOSE m \in S : \A x \in S : x <= m

\* get_next_id counting the tasks instead of taking the largest id
get_next_id_count(ts) == Len(ts) + 1

\* get_next_id without the + 1
get_next_id_stale(ts) ==
    IF ts = <<>> THEN 1
    ELSE SetMax({ts[i].id : i \in DOMAIN ts})

\* TaskManager.get_next_id
get_next_id(ts) ==
    IF ts = <<>> THEN 1
    ELSE SetMax({ts[i].id : i \in DOMAIN ts}) + 1

\* What a store method does: the list it leaves, whether it called
\* save_tasks, whether it found / made a task, and that task.
StoreResult(ts, saved, found, task) ==
    [tasks |-> ts, saved |-> saved, found |-> found, task |-> task]

NoTask == [id |-> 0, title |-> JNull, priority |-> "", isDone |-> FALSE]

\* create_task inserting at the front instead of appending
create_task_front(ts, title, priority) ==
    LET task == [id |-> get_next_id(ts), title |-> title,
                 priority |-> priority, isDone |-> FALSE]
    IN  StoreResult(<<task>> \o ts, TRUE, TRUE, task)

\* create_task assigning a fresh list instead of appending
create_task_reset(ts, title, priority) ==
    LET task == [id |-> get_next_id(ts), title |-> title,
                 priority |-> priority, isDone |-> FALSE]
    IN  StoreResult(<<task>>, TRUE, TRUE, task)

\* TaskManager.create_task
create_task(ts, title, priority) ==
    LET task == [id |-> get_next_id(ts), title |-> title,
                 priority |-> priority, isDone |-> FALSE]
    IN  StoreResult(Append(ts, task), TRUE, TRUE, task)

\* TaskManager.get_all_tasks
get_all_tasks(ts) == ts

\* TaskManager.get_task_by_id: position of the first task with that id,
\* 0 for None
get_task_by_id(ts, task_id) ==
    IF \E i \in DOMAIN ts : ts[i].id = task_id
    THEN CHOOSE i \in DOMAIN ts :
            /\ ts[i].id = task_id
            /\ \A j \in 1..(i - 1) : ts[j].id # task_id
    ELSE 0

\* list.pop() in place of list.remove(x): drops the last element
list_remove_last(ts, x) == SubSeq(ts, 1, Len(ts) - 1)

\* list.remove(x): drops the first element equal to x
list_remove(ts, x) ==
    LET k == CHOOSE i \in DOMAIN ts :
                 /\ ts[i] = x
                 /\ \A j \in 1..(i - 1) : ts[j] # x
    IN  [i \in 1..(Len(ts) - 1) |-> IF i < k THEN ts[i] ELSE ts[i + 1]]

\* mark_as_done setting the flag of every task once the id is found
mark_as_done_all(ts, task_id) ==
    LET i == get_task_by_id(ts, task_id)
    IN  IF i # 0
        THEN StoreResult([k \in DOMAIN ts |-> [ts[k] EXCEPT !.isDone = TRUE]],
                         TRUE, TRUE, ts[i])
        ELSE StoreResult(ts, FALSE, FALSE, NoTask)

\* mark_as_done flipping the flag instead of setting it
mark_as_done_toggle(ts, task_id) ==
    LET i == get_task_by_id(ts, task_id)
    IN  IF i # 0
        THEN StoreResult([ts EXCEPT ![i].isDone = ~ts[i].isDone], TRUE, TRUE,
                         ts[i])
        ELSE StoreResult(ts, FALSE, FALSE, NoTask)

\* TaskManager.mark_as_done
mark_as_done(ts, task_id) ==
    LET i == get_task_by_id(ts, task_id)
    IN  IF i # 0
        THEN StoreResult([ts EXCEPT ![i].isDone = TRUE], TRUE, TRUE, ts[i])
        ELSE StoreResult(ts, FALSE, FALSE, NoTask)

\* delete_task calling save_tasks whether or not the task was found
delete_task_resave(ts, task_id) ==
    LET i == get_task_by_id(ts, task_id)
    IN  IF i # 0
        THEN StoreResult(list_remove(ts, ts[i]), TRUE, TRUE, ts[i])
        ELSE StoreResult(ts, TRUE, FALSE, NoTask)

\* delete_task without its save_tasks call
delete_task_unsaved(ts, task_id) ==
    LET i == get_task_by_id(ts, task_id)
    IN  IF i # 0
        THEN StoreResult(list_remove(ts, ts[i]), FALSE, TRUE, ts[i])
        ELSE StoreResult(ts, FALSE, FALSE, NoTask)

\* TaskManager.delete_task
delete_task(ts, task_id) ==
    LET i == get_task_by_id(ts, task_id)
    IN  IF i # 0
        THEN StoreResult(list_remove(ts, ts[i]), TRUE, TRUE, ts[i])
        ELSE StoreResult(ts, FALSE, FALSE, NoTask)

\* ------------------------------------------------------- request paths
\* A path is the sequence of its "/" characters and of the maximal runs of
\* other characters between them: "/tasks/1" is <<"/", "tasks", "/", "1">>.
TasksPath == <<"/", "tasks">>
TasksPrefix == <<"/", "tasks", "/">>
CompleteSuffix == <<"/", "complete">>

Paths ==
    { TasksPath,
      <<"/", "tasks", "/">>,
      <<"/", "tasks", "/", "1">>,
      <<"/", "tasks", "/", "2">>,
      <<"/", "tasks", "/", "01">>,
      <<"/", "tasks", "/", "abc">>,
      <<"/", "tasks", "/", "1", "/", "complete">>,
      <<"/", "tasks", "/", "2", "/", "complete">>,
      <<"/", "tasks", "/", "abc", "/", "complete">>,
      <<"/", "tasks", "/", "1", "/", "x", "/", "complete">>,
      <<"/", "other">> }

\* str.startswith / str.endswith
startswith(p, prefix) ==
    /\ Len(p) >= Len(prefix)
    /\ SubSeq(p, 1, Len(prefix)) = prefix

endswith(p, suffix) ==
    /\ Len(p) >= Len(suffix)
    /\ SubSeq(p, Len(p) - Len(suffix) + 1, Len(p)) = suffix

RECURSIVE lstrip(_)
lstrip(p) == IF p # <<>> /\ Head(p) = "/" THEN lstrip(Tail(p)) ELSE p

RECURSIVE rstrip(_)
rstrip(p) ==
    IF p # <<>> /\ p[Len(p)] = "/" THEN rstrip(SubSeq(p, 1, Len(p) - 1))
    ELSE p

\* str.strip('/')
strip(p) == rstrip(lstrip(p))

\* str.split('/'): the pieces between the "/" characters, "" between two
\* adjacent ones
RECURSIVE split(_)
split(p) ==
    IF p = <<>> THEN <<"">>
    ELSE IF Head(p) = "/" THEN <<"">> \o split(Tail(p))
    ELSE IF Len(p) = 1 THEN <<Head(p)>>
    ELSE <<Head(p)>> \o split(Tail(Tail(p)))

\* int(s) on the id segments used here: the value, or ValueError
IntLiterals == {"1", "2", "01"}

int(s) ==
    IF s = "1" THEN 1
    ELSE IF s = "2" THEN 2
    ELSE 1  \* "01"

\* None as returned by _extract_task_id_from_path
NoId == -1

\* _extract_task_id_from_path reading the last segment instead of parts[1]
extract_task_id_last(path) ==
    LET parts == split(strip(path))
    IN  IF Len(parts) >= 2 /\ parts[1] = "tasks"
        THEN IF parts[Len(parts)] \in IntLiterals
             THEN int(parts[Len(parts)]) ELSE NoId
        ELSE NoId

\* TodoHandler._extract_task_id_from_path
extract_task_id_from_path(path) ==
    LET parts == split(strip(path))
    IN  IF Len(parts) >= 2 /\ parts[1] = "tasks"
        THEN IF parts[2] \in IntLiterals THEN int(parts[2]) ELSE NoId
        ELSE NoId

\* ------------------------------------------------------- request bodies
NoBody == [kind |-> "none", title |-> Absent, priority |-> Absent]
MalformedBody == [kind |-> "malformed", title |-> Absent, priority |-> Absent]
NullBody == [kind |-> "null", title |-> Absent, priority |-> Absent]
ArrayBody == [kind |-> "array", title |-> Absent, priority |-> Absent]
ObjectBody(t, p) == [kind |-> "object", title |-> t, priority |-> p]

TitleValues == {Absent, JStr(""), JStr("a")}
PriorityValues == {Absent, JNull, JStr("high"), JStr("urgent")}

Bodies ==
    {NoBody, MalformedBody, NullBody, ArrayBody}
    \cup {ObjectBody(t, p) : t \in TitleValues, p \in PriorityValues}

\* ------------------------------------------------------- responses
NoTaskJson == [id |-> JNull, title |-> JNull, priority |-> JNull, isDone |-> JNull]

\* nothing was written to the client
NoResponse ==
    [n |-> 0, status |-> 0, ctype |-> "", kind |-> "none", error |-> "",
     task |-> NoTaskJson, tasks |-> <<>>]

NoRequest == [method |-> "NONE", path |-> <<>>, body |-> NoBody]

\* the data handed to _send_json
ErrorData(message) == [kind |-> "error", error |-> message, task |-> NoTaskJson, tasks |-> <<>>]
TaskData(t) == [kind |-> "task", error |-> "", task |-> TaskToJson(t), tasks |-> <<>>]
ListData(ts) == [kind |-> "list", error |-> "", task |-> NoTaskJson, tasks |-> json_dump(ts)]
EmptyObject == [kind |-> "object", error |-> "", task |-> NoTaskJson, tasks |-> <<>>]
\* the dict that load_tasks took from the file, dumped as it is
LoadedDictData == [kind |-> "loaded_dict", error |-> "", task |-> NoTaskJson, tasks |-> <<>>]

\* TodoHandler._send_json
send_json(data, status) ==
    [n |-> 1, status |-> status, ctype |-> "application/json",
     kind |-> data.kind, error |-> data.error, task |-> data.task,
     tasks |-> data.tasks]

\* TodoHandler._send_error
send_error(status, message) == send_json(ErrorData(message), status)

\* BaseHTTPRequestHandler.send_error(501) of the standard library, sent
\* when the handler class has no do_<METHOD>
unsupported_method ==
    [n |-> 1, status |-> 501, ctype |-> "text/html;charset=utf-8",
     kind |-> "html", error |-> "Unsupported method", task |-> NoTaskJson,
     tasks |-> <<>>]

\* ------------------------------------------------------- the handlers
\* What one handler run does: the task list it leaves, the response it
\* wrote, whether it called save_tasks, the id it created (0: none) and the
\* id it removed (0: none).
Outcome(ts, response, saved, created, removed) ==
    [tasks |-> ts, resp |-> response, saved |-> saved,
     created |-> created, removed |-> removed]

Answer(response) == Outcome(tasks, response, FALSE, 0, 0)

\* An exception no handler catches: socketserver's handle_error logs it and
\* closes the connection; nothing is written, the server loop goes on.
Uncaught == Outcome(tasks, NoResponse, FALSE, 0, 0)

\* TodoHandler._parse_json_body: FALSE stands for the None it returns
parse_json_body(body) ==
    IF body.kind = "none" THEN FALSE
    ELSE IF body.kind = "malformed" THEN FALSE
    ELSE IF body.kind = "null" THEN FALSE
    ELSE TRUE

ValidPriorities == {JStr("low"), JStr("normal"), JStr("high")}

\* TodoHandler._handle_get_tasks
handle_get_tasks ==
    IF tasksKind = "list"
    THEN Answer(send_json(ListData(get_all_tasks(tasks)), 200))
    ELSE Answer(send_json(LoadedDictData, 200))

\* TodoHandler._handle_post_tasks
handle_post_tasks(body) ==
    IF ~parse_json_body(body)
    THEN Answer(send_error(400, "Invalid JSON"))
    ELSE IF body.kind # "object"
    THEN Uncaught  \* data.get: AttributeError on a list
    ELSE LET title == dict_get(body.title, JNull)
             priority == dict_get(body.priority, JStr("normal"))
         IN  IF ~Truthy(title)
             THEN Answer(send_error(400, "title is required"))
             ELSE IF priority \notin ValidPriorities
             THEN Answer(send_error(400, "priority must be low, normal, or high"))
             ELSE IF tasksKind # "list"
             THEN Uncaught  \* get_next_id: task['id'] on a key, TypeError
             ELSE LET r == create_task(tasks, title, priority.str)
                  IN  Outcome(r.tasks, send_json(TaskData(r.task), 201),
                              r.saved, r.task.id, 0)

\* TodoHandler._handle_post_tasks_complete
handle_post_tasks_complete(path) ==
    LET task_id == extract_task_id_from_path(path)
    IN  IF task_id = NoId
        THEN Answer(send_error(400, "Invalid task ID"))
        ELSE IF tasksKind # "list"
        THEN Uncaught  \* get_task_by_id: task['id'] on a key, TypeError
        ELSE LET r == mark_as_done(tasks, task_id)
             IN  IF r.found
                 THEN Outcome(r.tasks, send_json(EmptyObject, 200), r.saved, 0, 0)
                 ELSE Outcome(r.tasks, send_error(404, "Task not found"),
                              r.saved, 0, 0)

\* TodoHandler._handle_delete_task
handle_delete_task(path) ==
    LET task_id == extract_task_id_from_path(path)
    IN  IF task_id = NoId
        THEN Answer(send_error(400, "Invalid task ID"))
        ELSE IF tasksKind # "list"
        THEN Uncaught  \* get_task_by_id: task['id'] on a key, TypeError
        ELSE LET r == delete_task(tasks, task_id)
             IN  IF r.found
                 THEN Outcome(r.tasks, send_json(EmptyObject, 200), r.saved,
                              0, task_id)
                 ELSE Outcome(r.tasks, send_error(404, "Task not found"),
                              r.saved, 0, 0)

\* routing of TodoHandler.do_GET
route_GET(path) ==
    IF path = TasksPath THEN handle_get_tasks
    ELSE Answer(send_error(404, "Route not found"))

\* routing of TodoHandler.do_POST
route_POST(path, body) ==
    IF path = TasksPath THEN handle_post_tasks(body)
    ELSE IF startswith(path, TasksPrefix) /\ endswith(path, CompleteSuffix)
    THEN handle_post_tasks_complete(path)
    ELSE Answer(send_error(404, "Route not found"))

\* routing of TodoHandler.do_DELETE
route_DELETE(path) ==
    IF startswith(path, TasksPrefix) THEN handle_delete_task(path)
    ELSE Answer(send_error(404, "Route not found"))

\* ------------------------------------------------------- the state machine
\* Serve with the IOError of save_tasks not caught: the handler dies before
\* it answers
Serve_uncaught(out, outcome) ==
    /\ out.saved \/ outcome = "ok"
    /\ out.created <= MaxId
    /\ tasks' = out.tasks
    /\ UNCHANGED <<tasksKind, handlers>>
    /\ file' = IF out.saved THEN save_tasks(out.tasks, file, outcome) ELSE file
    /\ resp' = IF outcome = "ok" THEN out.resp ELSE NoResponse
    /\ before' = tasks
    /\ assigned' = IF out.created # 0 THEN assigned \cup {out.created} ELSE assigned
    /\ deleted' = IF out.removed # 0 THEN deleted \cup {out.removed} ELSE deleted
    /\ outcome # "ok" => writeFailures < MaxWriteFailures
    /\ writeFailures' = IF outcome # "ok" THEN writeFailures + 1 ELSE writeFailures
    /\ flushed' = IF out.saved /\ outcome = "ok" THEN out.tasks ELSE flushed
    /\ lastWrite' = IF out.saved THEN outcome ELSE lastWrite

\* The effect of one served request on the state; outcome is what the
\* file write of save_tasks did, when there was one.
Serve(out, outcome) ==
    /\ out.saved \/ outcome = "ok"
    /\ out.created <= MaxId
    /\ tasks' = out.tasks
    /\ UNCHANGED <<tasksKind, handlers>>
    /\ file' = IF out.saved THEN save_tasks(out.tasks, file, outcome) ELSE file
    /\ resp' = out.resp
    /\ before' = tasks
    /\ assigned' = IF out.created # 0 THEN assigned \cup {out.created} ELSE assigned
    /\ deleted' = IF out.removed # 0 THEN deleted \cup {out.removed} ELSE deleted
    /\ outcome # "ok" => writeFailures < MaxWriteFailures
    /\ writeFailures' = IF outcome # "ok" THEN writeFailures + 1 ELSE writeFailures
    /\ flushed' = IF out.saved /\ outcome = "ok" THEN out.tasks ELSE flushed
    /\ lastWrite' = IF out.saved THEN outcome ELSE lastWrite

Request(method, path, body) == [method |-> method, path |-> path, body |-> body]

\* the files a run may start with: none, an empty or unparseable one, or
\* one that save_tasks wrote
InitFiles ==
    { MissingFile, EmptyFile, MalformedFile, ArrayFile(<<>>),
      ArrayFile(<<[id |-> 1, title |-> JStr("a"), priority |-> "normal",
                   isDone |-> FALSE]>>) }

\* no create_task call is in progress. overlapped is history: some call of
\* this caller computed its id while the other caller had computed an id
\* and not yet appended its task.
Idle == [pc |-> "idle", id |-> 0, priority |-> "", overlapped |-> FALSE]
Callers == {1, 2}
NoHandlers == [c \in Callers |-> Idle]

\* the state TaskManager.__init__ leaves when the file is f
Started(f) ==
    /\ file = f
    /\ tasks = load_tasks(f)
    /\ tasksKind = load_kind(f)
    /\ handlers = NoHandlers
    /\ req = NoRequest
    /\ resp = NoResponse
    /\ before = tasks
    /\ assigned = {}
    /\ deleted = {}
    /\ writeFailures = 0
    /\ flushed = load_tasks(f)
    /\ lastWrite = "none"

\* TaskManager.__init__ at server start
Init == \E f \in InitFiles : Started(f)

\* TodoHandler.do_GET
do_GET ==
    \E path \in Paths :
        /\ req' = Request("GET", path, NoBody)
        /\ Serve(route_GET(path), "ok")

\* TodoHandler.do_POST; only POST /tasks reads the body
do_POST ==
    \E path \in Paths, body \in Bodies, outcome \in WriteOutcomes :
        /\ path # TasksPath => body = NoBody
        /\ req' = Request("POST", path, body)
        /\ Serve(route_POST(path, body), outcome)

\* TodoHandler.do_DELETE
do_DELETE ==
    \E path \in Paths, outcome \in WriteOutcomes :
        /\ req' = Request("DELETE", path, NoBody)
        /\ Serve(route_DELETE(path), outcome)

\* a method the handler class has no do_ method for
do_PUT ==
    \E path \in Paths :
        /\ req' = Request("PUT", path, NoBody)
        /\ Serve(Answer(unsupported_method), "ok")

\* the process is stopped and run_server started again: TaskManager()
\* reads the file anew
Restart ==
    /\ tasks' = load_tasks(file)
    /\ tasksKind' = load_kind(file)
    /\ req' = NoRequest
    /\ resp' = NoResponse
    /\ before' = load_tasks(file)
    /\ UNCHANGED <<file, handlers, assigned, deleted, writeFailures, flushed,
                   lastWrite>>

Next == do_GET \/ do_POST \/ do_DELETE \/ do_PUT \/ Restart

Spec == Init /\ [][Next]_vars

\* ------------------------------------------------ unguarded concurrent creates
\* create_task run by two callers with no lock between them, one action per
\* statement of create_task.

\* the task dict is built: get_next_id reads the list
create_task_get_next_id(c) ==
    /\ handlers[c].pc = "idle"
    /\ get_next_id(tasks) <= MaxId
    /\ \E priority \in {"normal", "high"} :
         handlers' = [handlers EXCEPT ![c] =
             [pc |-> "computed", id |-> get_next_id(tasks),
              priority |-> priority,
              overlapped |-> \/ handlers[c].overlapped
                             \/ \E d \in Callers \ {c} :
                                   handlers[d].pc = "computed"]]
    /\ UNCHANGED <<tasks, tasksKind, file, req, resp, before, assigned,
                   deleted, writeFailures, flushed, lastWrite>>

\* self.tasks.append(task)
create_task_append(c) ==
    /\ handlers[c].pc = "computed"
    /\ tasks' = Append(tasks, [id |-> handlers[c].id, title |-> JStr("a"),
                               priority |-> handlers[c].priority,
                               isDone |-> FALSE])
    /\ handlers' = [handlers EXCEPT ![c].pc = "appended"]
    /\ assigned' = assigned \cup {handlers[c].id}
    /\ UNCHANGED <<tasksKind, file, req, resp, before, deleted, writeFailures,
                   flushed, lastWrite>>

\* self.save_tasks(); return task
create_task_save(c) ==
    /\ handlers[c].pc = "appended"
    /\ \E outcome \in WriteOutcomes :
         /\ outcome # "ok" => writeFailures < MaxWriteFailures
         /\ file' = save_tasks(tasks, file, outcome)
         /\ writeFailures' =
              IF outcome # "ok" THEN writeFailures + 1 ELSE writeFailures
         /\ flushed' = IF outcome = "ok" THEN tasks ELSE flushed
         /\ lastWrite' = outcome
    /\ handlers' = [handlers EXCEPT ![c].pc = "idle"]
    /\ UNCHANGED <<tasks, tasksKind, req, resp, before, assigned, deleted>>

NextConcurrent ==
    \E c \in Callers :
        \/ create_task_get_next_id(c)
        \/ create_task_append(c)
        \/ create_task_save(c)

SpecConcurrent == Init /\ [][NextConcurrent]_vars

\* A start on any file content: besides the files of InitFiles, one that is
\* well-formed JSON but not an array of tasks.
LoadFiles == InitFiles \cup {ObjectFile}

InitLoad == \E f \in LoadFiles : Started(f)

SpecLoad == InitLoad /\ [][Next]_vars

\* ------------------------------------------------------- properties
\* the ids of the tasks in the store
Ids(ts) == {ts[i].id : i \in DOMAIN ts}

\* the request is POST /tasks
IsCreate(r) == r.method = "POST" /\ r.path = TasksPath

\* the request is POST /tasks/{id}/complete, {id} one path segment
IsComplete(r) ==
    /\ r.method = "POST"
    /\ Len(r.path) = 6
    /\ SubSeq(r.path, 1, 3) = TasksPrefix
    /\ r.path[4] # "/"
    /\ SubSeq(r.path, 5, 6) = CompleteSuffix

\* the request is DELETE /tasks/{id}, {id} one path segment
IsDelete(r) ==
    /\ r.method = "DELETE"
    /\ Len(r.path) = 4
    /\ SubSeq(r.path, 1, 3) = TasksPrefix
    /\ r.path[4] # "/"

\* the {id} segment of such a request
IdSegment(r) == r.path[4]

\* C1: the id given to a newly created task is greater than every id an
\* earlier create handed out, deleted or not, so that no id is assigned
\* twice (every file write having succeeded).
C1_IdMonotonic ==
    [][(resp'.status = 201 /\ writeFailures' = 0)
         => \A a \in assigned : resp'.task.id.num > a]_vars

\* C2: no two tasks of the collection have the same id.
C2_UniqueIds ==
    \A i, j \in DOMAIN tasks : tasks[i].id = tasks[j].id => i = j

\* C2 witness: two tasks are stored after a delete and a later create.
C2_Witness ==
    /\ Len(tasks) = 2
    /\ deleted # {}
    /\ resp.status = 201
    /\ Len(before) = 1

\* C3: once DELETE /tasks/X has succeeded (every file write having
\* succeeded), the collection never holds a task with id X again, and a
\* later complete or delete of X is answered 404 "Task not found".
C3_DeletionFinal ==
    [][(writeFailures' = 0)
         => /\ \A x \in deleted' : x \notin Ids(tasks')
            /\ \A x \in deleted :
                 ((IsComplete(req') \/ IsDelete(req'))
                    /\ IdSegment(req') \in IntLiterals
                    /\ int(IdSegment(req')) = x)
                 => resp' = send_error(404, "Task not found")]_vars

\* the JSON array GET /tasks answers with when the store holds ts
Listed(ts) == send_json(ListData(get_all_tasks(ts)), 200).tasks

\* how many entries of a JSON array of tasks carry the id of task t
CountId(list, t) == Cardinality({i \in DOMAIN list : list[i].id = t.id})

\* C4: right after a POST /tasks that answered 201 with task T, the list of
\* GET /tasks holds exactly one task with T's id, that task equals T in
\* title, priority and isDone, and every task listed before the create is
\* still listed unchanged.
C4_CreateListRoundTrip ==
    [][(resp'.status = 201)
         => /\ CountId(Listed(tasks'), resp'.task) = 1
            /\ \A i \in DOMAIN Listed(tasks') :
                 Listed(tasks')[i].id = resp'.task.id
                   => /\ Listed(tasks')[i].title = resp'.task.title
                      /\ Listed(tasks')[i].priority = resp'.task.priority
                      /\ Listed(tasks')[i].isDone = resp'.task.isDone
            /\ \A i \in DOMAIN Listed(tasks) :
                 \E j \in DOMAIN Listed(tasks') :
                     Listed(tasks')[j] = Listed(tasks)[i]]_vars

\* C4 witness: a create answered 201 while another task was already stored.
C4_Witness ==
    /\ resp.status = 201
    /\ Len(before) = 1
    /\ before[1].isDone
    /\ Len(tasks) = 2

\* C5: while no file write has failed, the file holds the whole current
\* collection: reading it back as a restart does gives the same tasks with
\* the same fields in the same order.
C5_PersistRestartRoundTrip ==
    writeFailures = 0 => load_tasks(file) = tasks

\* C5 witness: no write has failed and the file holds a collection that
\* was created, completed and deleted from.
C5_Witness ==
    /\ writeFailures = 0
    /\ file.kind = "array"
    /\ Len(tasks) = 1
    /\ tasks[1].isDone
    /\ deleted # {}
    /\ assigned # {}

\* C6: POST /tasks/{id}/complete on a stored task that is already done
\* answers 200 with {} and leaves the collection as it was, the task still
\* done (and the file too, when no write has failed).
C6_CompleteIdempotent ==
    [][(/\ IsComplete(req')
        /\ IdSegment(req') \in IntLiterals
        /\ \E i \in DOMAIN tasks :
              tasks[i].id = int(IdSegment(req')) /\ tasks[i].isDone)
         => /\ resp' = send_json(EmptyObject, 200)
            /\ tasks' = tasks
            /\ \A i \in DOMAIN tasks' :
                 tasks'[i].id = int(IdSegment(req')) => tasks'[i].isDone
            /\ (writeFailures' = 0 => file' = file)]_vars

\* C6 witness: a complete of a task that was already done has been answered.
C6_Witness ==
    /\ IsComplete(req)
    /\ resp.status = 200
    /\ \E i \in DOMAIN before :
          before[i].id = int(IdSegment(req)) /\ before[i].isDone
    /\ writeFailures = 0

\* the answer the claimed validation sequence gives for a body; NoResponse
\* stands for "all checks pass: 201 with the created task"
ExpectedCreateAnswer(body) ==
    IF body.kind \in {"none", "malformed", "null"}
    THEN send_error(400, "Invalid JSON")
    ELSE IF ~Truthy(body.title)
    THEN send_error(400, "title is required")
    ELSE IF body.priority # Absent /\ body.priority \notin ValidPriorities
    THEN send_error(400, "priority must be low, normal, or high")
    ELSE NoResponse

\* C7: POST /tasks answers with the first failing check of: body absent or
\* unparseable -> 400 "Invalid JSON"; title missing or empty -> 400 "title is
\* required"; priority present and invalid -> 400 "priority must be low,
\* normal, or high"; and with 201 only when all three pass.
C7_CreateValidationOrder ==
    IsCreate(req)
      => IF ExpectedCreateAnswer(req.body) = NoResponse
         THEN resp.status = 201 /\ resp.kind = "task"
         ELSE resp = ExpectedCreateAnswer(req.body)

\* the request is one of the four routes of the routing table
IsRoute(r) ==
    \/ r.method = "GET" /\ r.path = TasksPath
    \/ IsCreate(r)
    \/ IsComplete(r)
    \/ IsDelete(r)

\* C8: a request that is none of GET /tasks, POST /tasks,
\* POST /tasks/{id}/complete, DELETE /tasks/{id} is answered 404 "Route not
\* found" and changes no task.
C8_UnmatchedRoutes ==
    (req # NoRequest /\ ~IsRoute(req))
      => /\ resp = send_error(404, "Route not found")
         /\ tasks = before

\* C9: POST /tasks/{id}/complete and DELETE /tasks/{id} answer 400 "Invalid
\* task ID" exactly when {id} does not parse as an integer, 200 with {}
\* exactly when it parses and a task with that id was stored when the
\* request arrived, and 404 "Task not found" exactly when it parses and no
\* such task was stored.
C9_StatusMapping ==
    (IsComplete(req) \/ IsDelete(req))
      => LET parses == IdSegment(req) \in IntLiterals
             stored == parses /\ int(IdSegment(req)) \in Ids(before)
         IN  /\ resp.n = 1
             /\ resp = send_error(400, "Invalid task ID") <=> ~parses
             /\ resp = send_json(EmptyObject, 200) <=> stored
             /\ resp = send_error(404, "Task not found") <=> (parses /\ ~stored)

\* C9 witness: a delete whose id segment is written "01" was answered 200
\* for the stored task 1.
C9_Witness ==
    /\ IsDelete(req)
    /\ IdSegment(req) = "01"
    /\ 1 \in Ids(before)
    /\ resp.status = 200
    /\ Len(before) = 2

\* C10: every request gets exactly one response, its Content-Type is
\* application/json, and an error status comes with a body {"error": ...}.
C10_OneJsonResponse ==
    req # NoRequest
      => /\ resp.n = 1
         /\ resp.ctype = "application/json"
         /\ (resp.status >= 400 => resp.kind = "error")

\* the request is GET /tasks
IsList(r) == r.method = "GET" /\ r.path = TasksPath

\* the position in ts of the task with this id, 0 when there is none
PosOf(ts, id) ==
    IF id \in Ids(ts) THEN CHOOSE i \in DOMAIN ts : ts[i].id = id ELSE 0

\* C11: when the file write of a create, complete or delete fails, the
\* client still gets the success answer (201 or 200), the in-memory
\* collection holds the mutation, and a request that follows sees it.
C11_FailOpen ==
    [][/\ (writeFailures' # writeFailures)
         => /\ resp'.n = 1
            /\ resp'.status \in {200, 201}
            /\ (resp'.status = 201
                  => /\ Len(tasks') = Len(tasks) + 1
                     /\ TaskToJson(tasks'[Len(tasks')]) = resp'.task)
            /\ (IsComplete(req')
                  => /\ PosOf(tasks', int(IdSegment(req'))) # 0
                     /\ tasks'[PosOf(tasks', int(IdSegment(req')))].isDone)
            /\ (IsDelete(req')
                  => /\ int(IdSegment(req')) \in Ids(tasks)
                     /\ int(IdSegment(req')) \notin Ids(tasks'))
       /\ ((IsList(req') /\ writeFailures > 0)
             => /\ resp' = send_json(ListData(tasks), 200)
                /\ tasks' = tasks)]_vars

\* C11 witness: a delete was answered 200 although its file write failed;
\* the file still holds the deleted task, the collection does not.
C11_Witness ==
    /\ IsDelete(req)
    /\ resp.status = 200
    /\ writeFailures = 1
    /\ file.kind = "array"
    /\ load_tasks(file) = before
    /\ tasks # before

\* C12: when the file is missing, empty, or holds anything but a
\* well-formed task array (malformed JSON, or JSON that is not an array),
\* the store starts with an empty collection and GET /tasks answers 200
\* with [] until something is created.
C12_InitializeFallback ==
    (file.kind \in {"missing", "empty", "malformed", "object"}
       /\ writeFailures = 0)
      => /\ tasksKind = "list"
         /\ tasks = <<>>
         /\ (IsList(req) => resp = send_json(ListData(<<>>), 200))

\* the request was a POST that the completion handler answered 200 for id
CompletedBy(r, rs, id) ==
    /\ r.method = "POST"
    /\ r.path # TasksPath
    /\ rs = send_json(EmptyObject, 200)
    /\ extract_task_id_from_path(r.path) = id

\* isDone of the tasks that are stored before and after a step: never from
\* true to false, and from false to true only by a successful complete of
\* that id; a created task starts with isDone false
OneWayStep ==
    /\ (resp'.status = 201 => ~tasks'[Len(tasks')].isDone)
    /\ \A i \in DOMAIN tasks, j \in DOMAIN tasks' :
         tasks[i].id = tasks'[j].id
           => /\ (tasks[i].isDone => tasks'[j].isDone)
              /\ ((~tasks[i].isDone /\ tasks'[j].isDone)
                    => CompletedBy(req', resp', tasks[i].id))

\* C13 as stated: isDone is false at creation, goes from false to true only
\* by a successful complete of that task's id, and no operation, restart
\* included, takes it from true to false.
C13_CompletionOneWay == [][OneWayStep]_vars

\* C13 amended: the same for every request, and for a restart as long as no
\* file write has failed; a restart after a failed write puts isDone back
\* to what the file holds.
C13_CompletionOneWayAmended ==
    [][(req' = NoRequest /\ writeFailures > 0) \/ OneWayStep]_vars

\* C13 witness: a restart with no failed write kept a completed task done.
C13_Witness ==
    /\ req = NoRequest
    /\ writeFailures = 0
    /\ assigned # {}
    /\ Len(tasks) = 2
    /\ tasks[1].isDone
    /\ ~tasks[2].isDone

\* C14: POST /tasks with a non-empty title and a priority that is absent or
\* one of low, normal, high answers 201 with a task that has the given
\* title, the given priority or "normal" when absent, and isDone false; on
\* an empty store the task has id 1.
C14_CreateResult ==
    (/\ IsCreate(req)
     /\ req.body.kind = "object"
     /\ req.body.title.type = "string"
     /\ req.body.title.str # ""
     /\ req.body.priority \in {Absent, JStr("low"), JStr("normal"), JStr("high")})
      => /\ resp.n = 1
         /\ resp.status = 201
         /\ resp.ctype = "application/json"
         /\ resp.kind = "task"
         /\ resp.task.title = req.body.title
         /\ resp.task.priority =
              (IF req.body.priority = Absent THEN JStr("normal")
               ELSE req.body.priority)
         /\ resp.task.isDone = JFalse
         /\ (before = <<>> => resp.task.id = JNum(1))

\* C14 witness: a create without priority on an empty store got task 1 with
\* priority normal.
C14_Witness ==
    /\ IsCreate(req)
    /\ req.body.priority = Absent
    /\ before = <<>>
    /\ resp.status = 201
    /\ resp.task.priority = JStr("normal")
    /\ tasks # <<>>

\* C15: the id create assigns is 1 when the collection is empty at the call
\* and otherwise the largest id among the tasks then stored plus 1; ids of
\* tasks deleted earlier do not count.
C15_NextId ==
    resp.status = 201
      => LET id == resp.task.id.num
         IN  IF before = <<>> THEN id = 1
             ELSE /\ id - 1 \in Ids(before)
                  /\ \A x \in Ids(before) : x < id

\* C15 witness: task 2 was deleted, task 1 is stored, and a create was
\* given id 2.
C15_Witness ==
    /\ resp.status = 201
    /\ Ids(before) = {1}
    /\ 2 \in deleted
    /\ resp.task.id.num = 2

\* C16: a request answered 400 or 404 leaves the in-memory collection and
\* the backing file exactly as they were; a complete or delete of a missing
\* id does not write the file.
C16_ErrorsChangeNothing ==
    [][(resp'.status \in {400, 404})
         => /\ tasks' = tasks
            /\ tasksKind' = tasksKind
            /\ file' = file
            /\ writeFailures' = writeFailures]_vars

\* C16 witness: a delete of a missing id was answered 404 and no file was
\* created.
C16_Witness ==
    /\ IsDelete(req)
    /\ resp = send_error(404, "Task not found")
    /\ file.kind = "missing"
    /\ tasks = before

\* the last request was a delete / a complete that was answered 200 with {}
SuccessfulDelete ==
    req.method = "DELETE" /\ resp = send_json(EmptyObject, 200)

SuccessfulComplete ==
    /\ req.method = "POST"
    /\ req.path # TasksPath
    /\ resp = send_json(EmptyObject, 200)

\* the tasks of ts whose id is not id, in their order
Without(ts, id) ==
    LET keep(t) == t.id # id
    IN  SelectSeq(ts, keep)

\* C17: a successful create appends one task and changes no other; a
\* successful complete of X changes only isDone of task X; a successful
\* delete of X removes exactly task X; so with every request the list
\* length changes by (1 if it created) - (1 if it deleted).
C17_MutationFrame ==
    LET X == extract_task_id_from_path(req.path)
    IN  /\ (resp.status = 201
              => /\ Len(tasks) = Len(before) + 1
                 /\ SubSeq(tasks, 1, Len(before)) = before)
        /\ (SuccessfulComplete
              => /\ Len(tasks) = Len(before)
                 /\ \A i \in DOMAIN before :
                      tasks[i] = IF before[i].id = X
                                 THEN [before[i] EXCEPT !.isDone = TRUE]
                                 ELSE before[i])
        /\ (SuccessfulDelete
              => /\ X \in Ids(before)
                 /\ X \notin Ids(tasks)
                 /\ Len(tasks) = Len(before) - 1
                 /\ tasks = Without(before, X))
        /\ Len(tasks) - Len(before) =
             (IF resp.status = 201 THEN 1 ELSE 0)
               - (IF SuccessfulDelete THEN 1 ELSE 0)

\* C17 witness: the first of two stored tasks was deleted and the second is
\* left as it was.
C17_Witness ==
    /\ SuccessfulDelete
    /\ Len(before) = 2
    /\ before[1].id = extract_task_id_from_path(req.path)
    /\ before[2].isDone
    /\ tasks = <<before[2]>>

GoodPriority(p) == p \in {JStr("low"), JStr("normal"), JStr("high")}
GoodTitle(t) == t.type \notin {"absent", "null"} /\ t # JStr("")

\* C19: every task in the in-memory collection and every task in the
\* backing file has a priority among low, normal, high and a non-empty
\* title.
C19_PriorityInvariant ==
    /\ \A i \in DOMAIN tasks :
         GoodPriority(JStr(tasks[i].priority)) /\ GoodTitle(tasks[i].title)
    /\ file.kind = "array"
         => \A i \in DOMAIN file.items :
              GoodPriority(file.items[i].priority)
                /\ GoodTitle(file.items[i].title)

\* C19 witness: tasks created with and without a priority are stored and
\* persisted.
C19_Witness ==
    /\ assigned = {1, 2}
    /\ Len(tasks) = 2
    /\ tasks[1].priority = "high"
    /\ tasks[2].priority = "normal"
    /\ file = ArrayFile(tasks)

\* C20: with two unguarded concurrent creates a state in which two tasks
\* share an id is reachable, and it arises exactly that way: two tasks share
\* an id only if a caller computed its id while the other had computed one
\* and not yet appended.
C20_DuplicatesOnlyByOverlap ==
    (\E i, j \in DOMAIN tasks : i # j /\ tasks[i].id = tasks[j].id)
      => \E c \in Callers : handlers[c].overlapped

\* C20 witness: both creates have returned and the two tasks they appended
\* have the same id.
C20_Witness ==
    /\ \A c \in Callers : handlers[c].pc = "idle"
    /\ Len(tasks) = 2
    /\ tasks[1].id = tasks[2].id
    /\ file = ArrayFile(tasks)

\* the latest save_tasks call raised IOError and the process has been
\* started again since: the store holds the list of the last write that
\* succeeded
RestartKeepsFlushed ==
    (req = NoRequest /\ lastWrite \notin {"none", "ok"}) => tasks = flushed

\* the latest save_tasks call succeeded: the file holds the whole current
\* list, whatever failed before, and loading it gives that list back
PersistComplete ==
    lastWrite = "ok" => (file = ArrayFile(tasks) /\ load_tasks(file) = tasks)

\* C21: loss is bounded to unflushed changes. After a failed persist and a
\* restart with no successful persist in between, the store holds exactly
\* the list of the last successful persist; and a successful persist writes
\* the complete current list.
C21_LossBounded == RestartKeepsFlushed /\ PersistComplete

====
